---- MODULE Spec2Model ----
(***************************************************************************)
(* The asynchronous request engine of auracle (src/aur/aur.cc): class Aur. *)
(*                                                                         *)
(* One unit of in-flight work is identified by a small integer that stands *)
(* for the CURL* easy handle or the sd_event_source* child watcher stored  *)
(* in active_requests_, and for the ResponseHandler allocated with it.     *)
(* The program is single threaded.  Control is either in the caller        *)
(* (between calls of Wait), in sd_event_run inside Wait, or in a response  *)
(* callback that a handler of the engine has invoked; a callback is user   *)
(* code, so it may itself call the engine's public operations before it    *)
(* returns.  `stack` holds the callbacks that are executing.               *)
(*                                                                         *)
(* Strings the code inspects character by character (the value of          *)
(* AURACLE_DEBUG, decimal numbers) are sequences of one-character strings; *)
(* other strings are sequences of words.                                   *)
(*                                                                         *)
(* Spec and FairSpec follow the life cycle of the requests of an engine    *)
(* that was constructed with AURACLE_DEBUG unset in a directory without    *)
(* checkouts, and leave the bytes of the response bodies out.  LifeSpec    *)
(* adds construction and destruction over all values of the environment    *)
(* variable and of the signal mask, CloneSpec the working directory and    *)
(* the git children, BodySpec the body bytes curl delivers.                *)
(***************************************************************************)
EXTENDS Integers, Sequences, FiniteSets, TLC

\* ---------------------------------------------------------------- bounds
MaxReq == 3
MaxUrls == 2
MaxChunks == 2

\* ------------------------------------------------------ program constants
CURLE_OK == 0
CURLE_COULDNT_CONNECT == 7
CURLE_OPERATION_TIMEDOUT == 28
EIO == 5
ECANCELED == 125
EINVAL == 22
EAGAIN == 11
ENOMEM == 12

Ids == 1..MaxReq
NoId == 0

\* CURLcode values a transfer can end with (msg->data.result)
Results == {CURLE_OK, CURLE_COULDNT_CONNECT, CURLE_OPERATION_TIMEDOUT}
\* CURLINFO_RESPONSE_CODE values
ResponseCodes == {0, 200}
\* contents of the handler's error_buffer when the transfer ends
ErrorBuffers == {<<>>, <<"per-handle message">>}
\* si_status of an exited git child
ExitStatuses == {0, 3, 127}
\* errno after a failed fork()
ForkErrnos == {EAGAIN, ENOMEM}
\* values a response callback may return
CallbackResults == {-1, 0, 1}

\* "requests:"
Str_requests == <<"r", "e", "q", "u", "e", "s", "t", "s", ":">>
\* values of the environment variable AURACLE_DEBUG; unset reads as ""
EnvValues ==
  { <<>>,
    Str_requests \o <<"/", "t">>,
    Str_requests,
    <<"1">>,
    <<"x">> \o Str_requests \o <<"/", "t">>,
    <<"r", "e", "q", "u", "e", "s", "t", "s">> }
\* signals, and the signal masks the process may have before Aur::Aur
Signals == {"SIGCHLD", "SIGINT"}
PriorMasks == SUBSET Signals
\* request.reponame() of the CloneRequests
RepoNames == {"pkg", "lib"}
\* the CloneRequest the life-cycle specifications queue
MainRepo == "pkg"
\* The n-th piece of the response body of transfer i that curl hands to
\* the write callback: its bytes, told apart from every other piece
Chunk(i, n) == <<i, n>>

VARIABLES
  nextId,        \* number of handlers allocated so far, plus one
  kind,          \* kind[i]: "none", "http", "clone" or "spawnfail"
  active,        \* active_requests_
  handler,       \* handler[i]: "none", "alive" or "freed" (the heap object)
  deletes,       \* deletes[i]: how many times the handler was deleted
  invoked,       \* invoked[i]: how many times the handler's Run was called
  xfer,          \* xfer[i]: the easy handle in curl_multi_: "none", "running",
                 \*          "done" (CURLMSG_DONE queued, not read), "removed"
  watcher,       \* watcher[i]: the child-exit event source is registered
  cancelled,     \* cancelled_
  cancelledIds,  \* history: the requests Cancel() was applied to
  everCancel,    \* history: CancelAll has been executed
  cancelInWait,  \* history: CancelAll was executed during the current Wait
  waitState,     \* "idle", "running" (inside Wait's loop), "returned"
  waitResult,    \* the value the last Wait returned
  stack,         \* the callbacks that are executing, innermost last
  crashed,       \* the process was terminated by undefined behaviour
  last,          \* the operation that produced this state, with its inputs
  queuedAt,      \* history: queuedAt[i] is the number of callbacks that were
                 \*   executing when request i was queued during the current
                 \*   Wait, 0 if it was queued by the caller or before it
  debugopt,      \* debugopt[i]: the trace options set on easy handle i
  phase,         \* "unborn", "alive" (constructed) or "destroyed"
  env,           \* the value of AURACLE_DEBUG
  debug_level_,  \* "NONE", "REQUESTS" or "VERBOSE_STDERR"
  debug_stream_, \* the trace file: [opened, path]
  sigmask,       \* the signal mask of the process
  saved_ss_,     \* saved_ss_
  maskBefore,    \* history: the signal mask when Aur::Aur was entered
  checkout,      \* the repository directories that contain ".git"
  reponame,      \* reponame[i]: request.reponame() of clone request i
  operation,     \* operation[i]: operation_ of the CloneResponseHandler
  argv,          \* argv[i]: the argument vector child i calls execvp with
  body,          \* body[i]: the handler's body
  delivered      \* history: delivered[i] are the chunks curl has passed to
                 \*   the write callback of transfer i, in call order

lifeVars == <<phase, env, debug_level_, debug_stream_, sigmask, saved_ss_,
              maskBefore>>
cloneVars == <<checkout, reponame, operation, argv>>
bodyVars == <<body, delivered>>

vars == <<nextId, kind, active, handler, deletes, invoked, xfer, watcher,
          cancelled, cancelledIds, everCancel, cancelInWait, waitState,
          waitResult, stack, crashed, last, queuedAt, debugopt, lifeVars,
          cloneVars, bodyVars>>

\* ------------------------------------------------------------- helpers
\* The record kept in `last`: the operation, the request it is about, the
\* kind of callback involved, the value returned (for OnCurl: the CURLcode
\* of the transfer), the status and error string given to the callback,
\* the error_buffer of the handler, the response given to the callback, and
\* for CancelAll the requests it cancelled.
Op(op, id, ctx, r, status, error) ==
  [op |-> op, id |-> id, ctx |-> ctx, r |-> r, status |-> status,
   error |-> error, errbuf |-> <<>>, response |-> <<>>, ids |-> {}]

\* The engine's fields as one value, so the sequential code of one handler
\* can be composed from the functions it calls.
Eng ==
  [active |-> active, handler |-> handler, deletes |-> deletes, xfer |-> xfer,
   watcher |-> watcher, cancelled |-> cancelled, cancelledIds |-> cancelledIds,
   ub |-> FALSE]

SetEng(e) ==
  /\ active' = e.active
  /\ handler' = e.handler
  /\ deletes' = e.deletes
  /\ xfer' = e.xfer
  /\ watcher' = e.watcher
  /\ cancelled' = e.cancelled
  /\ cancelledIds' = e.cancelledIds

\* `delete handler` / `delete this`: deleting an object that is already
\* deleted is undefined behaviour, recorded in e.ub.
DeleteHandler(e, id) ==
  [e EXCEPT !.handler[id] = "freed",
            !.deletes[id] = IF @ < 2 THEN @ + 1 ELSE @,
            !.ub = e.ub \/ e.handler[id] = "freed"]

\* curl_easy_strerror(result)
curl_easy_strerror(result) ==
  CASE result = CURLE_OK -> <<"No error">>
    [] result = CURLE_COULDNT_CONNECT -> <<"Couldn't connect to server">>
    [] OTHER -> <<"Timeout was reached">>

\* strerror(errno)
strerror(e) ==
  IF e = EAGAIN THEN <<"Resource temporarily unavailable">>
  ELSE <<"Cannot allocate memory">>

\* Mutant: the error string is the error buffer, whatever is in it
TransferError_BufferOnly(result, errbuf) ==
  IF result # CURLE_OK THEN errbuf ELSE <<>>

\* FinishRequest(CURL*, CURLcode, bool): the error string handed to the
\* callback (lines 326-332)
TransferError(result, errbuf) ==
  IF result # CURLE_OK
    THEN IF errbuf = <<>> THEN curl_easy_strerror(result) ELSE errbuf
    ELSE <<>>

\* FinishRequest(CURL*, CURLcode, bool), after the callback or without one:
\* active_requests_.erase, curl_multi_remove_handle, curl_easy_cleanup
ReleaseTransfer(e, id) ==
  [e EXCEPT !.active = @ \ {id}, !.xfer[id] = "removed"]

\* FinishRequest(CURL*, result, dispatch_callback = false)
FinishRequestNoDispatch(e, id) ==
  ReleaseTransfer(DeleteHandler(e, id), id)

\* Mutant: finishing one watcher empties the whole active set
FinishRequestSource_All(e, id) ==
  [e EXCEPT !.active = {}, !.watcher[id] = FALSE]

\* FinishRequest(sd_event_source*)
FinishRequestSource(e, id) ==
  [e EXCEPT !.active = @ \ {id}, !.watcher[id] = FALSE]

\* Aur::Cancel: the visitor over the variant
Cancel(e, id) ==
  LET f == IF kind[id] = "http" THEN FinishRequestNoDispatch(e, id)
           ELSE FinishRequestSource(e, id)
  IN  [f EXCEPT !.cancelledIds = @ \cup {id}]

\* *active_requests_.begin()
Begin(S) == CHOOSE i \in S : \A j \in S : i <= j

RECURSIVE CancelLoop(_)
CancelLoop(e) ==
  IF e.active = {} THEN e ELSE CancelLoop(Cancel(e, Begin(e.active)))

\* Aur::CancelAll
CancelAllOn(e) == [CancelLoop(e) EXCEPT !.cancelled = TRUE]

\* The engine exists and the process runs.
Live == phase = "alive" /\ ~crashed

\* Control is in user code: the caller outside Wait, or a running callback.
UserControl == Live /\ (stack # <<>> \/ waitState # "running")

\* std::string_view::find: the position of the first occurrence of prefix
\* in view, counted from 0, or npos (here -1)
find(view, prefix) ==
  LET hits == {p \in 0..Len(view) :
                 /\ p + Len(prefix) <= Len(view)
                 /\ SubSeq(view, p + 1, p + Len(prefix)) = prefix}
  IN  IF hits = {} THEN -1 ELSE CHOOSE p \in hits : \A q \in hits : p <= q

\* ConsumePrefix: whether view starts with prefix, and view afterwards
ConsumePrefix(view, prefix) ==
  IF find(view, prefix) # 0
    THEN [ok |-> FALSE, view |-> view]
    ELSE [ok |-> TRUE, view |-> SubSeq(view, Len(prefix) + 1, Len(view))]

\* Mutant: any value that contains "requests:" selects the trace file
DebugOf_Anywhere(e) ==
  IF find(e, Str_requests) >= 0
    THEN [level |-> "REQUESTS",
          stream |-> [opened |-> TRUE, path |-> e]]
    ELSE [level |-> IF e # <<>> THEN "VERBOSE_STDERR" ELSE "NONE",
          stream |-> [opened |-> FALSE, path |-> <<>>]]

\* Aur::Aur: debug_level_ and debug_stream_ from the value of AURACLE_DEBUG
\* (a file name that is empty cannot be opened)
DebugOf(e) ==
  LET c == ConsumePrefix(e, Str_requests) IN
  IF c.ok
    THEN [level |-> "REQUESTS",
          stream |-> [opened |-> c.view # <<>>, path |-> c.view]]
    ELSE [level |-> IF c.view # <<>> THEN "VERBOSE_STDERR" ELSE "NONE",
          stream |-> [opened |-> FALSE, path |-> <<>>]]

\* sigprocmask(SIG_BLOCK, {SIGCHLD}, &saved_ss_): the new mask
SigBlock(mask) == mask \cup {"SIGCHLD"}

\* Mutant: the destructor unblocks SIGCHLD instead of restoring the mask
SigRestore_Unblock(mask, saved) == mask \ {"SIGCHLD"}

\* sigprocmask(SIG_SETMASK, &saved_ss_, nullptr): the new mask
SigRestore(mask, saved) == saved

\* std::to_string of a number >= 0, as its characters
RECURSIVE to_string(_)
to_string(n) ==
  LET digit == <<"0", "1", "2", "3", "4", "5", "6", "7", "8", "9">>[(n % 10) + 1]
  IN  IF n < 10 THEN <<digit>> ELSE to_string(n \div 10) \o <<digit>>

\* request.Build(options_.baseurl)[0] of a CloneRequest
CloneUrl(name) == <<"baseurl", name>>

\* QueueCloneRequest, in the child: the argument vector given to execvp
ChildArgv(update, name) ==
  IF update
    THEN <<"git", "-C", name, "pull", "--quiet", "--rebase", "--autostash",
           "--ff-only">>
    ELSE <<"git", "clone", "--quiet", CloneUrl(name)>>

\* Mutant: a chunk is put in front of what was received before
BodyAppend_Front(b, chunk) == <<chunk>> \o b

\* ResponseHandler::BodyCallback: body.append(ptr, size * nmemb)
BodyAppend(b, chunk) == Append(b, chunk)

\* A call made by the caller itself (not from a callback) ends the state
\* "Wait has just returned".
AfterCall == IF stack = <<>> THEN "idle" ELSE waitState

\* ---------------------------------------------------------------- Init
\* Nothing has been queued: the fields of the engine and of its requests
EngineInit ==
  /\ nextId = 1
  /\ kind = [i \in Ids |-> "none"]
  /\ active = {}
  /\ handler = [i \in Ids |-> "none"]
  /\ deletes = [i \in Ids |-> 0]
  /\ invoked = [i \in Ids |-> 0]
  /\ xfer = [i \in Ids |-> "none"]
  /\ watcher = [i \in Ids |-> FALSE]
  /\ cancelled = FALSE
  /\ cancelledIds = {}
  /\ everCancel = FALSE
  /\ cancelInWait = FALSE
  /\ waitState = "idle"
  /\ waitResult = 0
  /\ stack = <<>>
  /\ crashed = FALSE
  /\ queuedAt = [i \in Ids |-> 0]
  /\ debugopt = [i \in Ids |-> "none"]
  /\ reponame = [i \in Ids |-> ""]
  /\ operation = [i \in Ids |-> ""]
  /\ argv = [i \in Ids |-> <<>>]
  /\ body = [i \in Ids |-> <<>>]
  /\ delivered = [i \in Ids |-> <<>>]

\* The state after Aur::Aur has run with AURACLE_DEBUG = e, signal mask m
\* and the repository directories in c checked out
InitWith(e, m, c) ==
  /\ EngineInit
  /\ phase = "alive"
  /\ env = e
  /\ debug_level_ = DebugOf(e).level
  /\ debug_stream_ = DebugOf(e).stream
  /\ sigmask = SigBlock(m)
  /\ saved_ss_ = m
  /\ maskBefore = m
  /\ checkout = c
  /\ last = Op("Aur", NoId, "", 0, 0, <<>>)

\* Aur::Aur: AURACLE_DEBUG is unset, no signal is blocked, nothing is
\* checked out, no request has been queued
Init == InitWith(<<>>, {}, {})

\* ------------------------------------------------------------- actions
\* Mutant: a request queued by a running callback is not entered
Emplace_CallerOnly(S, new) == IF stack = <<>> THEN S \cup new ELSE S

\* active_requests_.emplace for each of the handles in new
Emplace(S, new) == S \cup new

\* how many callbacks are executing around a queue operation made during
\* Wait (0 outside Wait)
QueueDepth == IF waitState = "running" THEN Len(stack) ELSE 0

\* QueueHttpRequest: the trace options set on the easy handle
\* (switch (debug_level_))
DebugOptions(level) ==
  CASE level = "NONE" -> <<>>
    [] level = "REQUESTS" -> <<"DEBUGFUNCTION", "VERBOSE">>
    [] OTHER -> <<"VERBOSE">>

\* Aur::QueueHttpRequest (QueueRpcRequest, QueueRawRequest,
\* QueueTarballRequest): one handler and one easy handle per URL that
\* request.Build returns; k is the number of URLs.
QueueHttpRequest(k) ==
  LET new == nextId .. (nextId + k - 1) IN
  /\ UserControl
  /\ nextId + k - 1 <= MaxReq
  /\ nextId' = nextId + k
  /\ kind' = [i \in Ids |-> IF i \in new THEN "http" ELSE kind[i]]
  /\ handler' = [i \in Ids |-> IF i \in new THEN "alive" ELSE handler[i]]
  /\ xfer' = [i \in Ids |-> IF i \in new THEN "running" ELSE xfer[i]]
  /\ debugopt' = [i \in Ids |-> IF i \in new THEN DebugOptions(debug_level_)
                                               ELSE debugopt[i]]
  /\ active' = Emplace(active, new)
  /\ queuedAt' = [i \in Ids |-> IF i \in new THEN QueueDepth ELSE queuedAt[i]]
  /\ waitState' = AfterCall
  /\ last' = Op("QueueHttpRequest", nextId, "", 0, 0, <<>>)
  /\ UNCHANGED <<deletes, invoked, watcher, cancelled, cancelledIds,
                 everCancel, cancelInWait, waitResult, stack, crashed,
                 lifeVars, cloneVars, bodyVars>>

\* fs::exists(fs::path(request.reponame()) / ".git")
Exists(name) == name \in checkout

\* Mutant: the handler is told the opposite operation
OperationName_Swapped(update) == IF update THEN "clone" ELSE "update"

\* update ? "update" : "clone"
OperationName(update) == IF update THEN "update" ELSE "clone"

\* Aur::QueueCloneRequest, fork() succeeded: the child calls execvp with
\* its argument vector; in the parent a child watcher is registered with
\* the handler as its userdata.
QueueCloneRequest(name) ==
  LET update == Exists(name) IN
  /\ UserControl
  /\ nextId <= MaxReq
  /\ nextId' = nextId + 1
  /\ kind' = [kind EXCEPT ![nextId] = "clone"]
  /\ handler' = [handler EXCEPT ![nextId] = "alive"]
  /\ reponame' = [reponame EXCEPT ![nextId] = name]
  /\ operation' = [operation EXCEPT ![nextId] = OperationName(update)]
  /\ argv' = [argv EXCEPT ![nextId] = ChildArgv(update, name)]
  /\ watcher' = [watcher EXCEPT ![nextId] = TRUE]
  /\ active' = Emplace(active, {nextId})
  /\ queuedAt' = [queuedAt EXCEPT ![nextId] = QueueDepth]
  /\ waitState' = AfterCall
  /\ last' = Op("QueueCloneRequest", nextId, "", 0, 0, <<>>)
  /\ UNCHANGED <<deletes, invoked, xfer, cancelled, cancelledIds,
                 everCancel, cancelInWait, waitResult, stack, crashed,
                 debugopt, lifeVars, checkout, bodyVars>>

\* Mutant: the failed request is entered into the active set all the same
SpawnFailActive_Adds(S, id) == S \cup {id}

\* What the fork-failure branch of QueueCloneRequest does with the set
SpawnFailActive(S, id) == S

\* Aur::QueueCloneRequest, fork() failed: handler->RunCallback(-errno, ...)
\* is called at once; the callback starts executing.
QueueCloneRequestForkFails(name, errno) ==
  /\ UserControl
  /\ nextId <= MaxReq
  /\ nextId' = nextId + 1
  /\ kind' = [kind EXCEPT ![nextId] = "spawnfail"]
  /\ handler' = [handler EXCEPT ![nextId] = "alive"]
  /\ reponame' = [reponame EXCEPT ![nextId] = name]
  /\ invoked' = [invoked EXCEPT ![nextId] = @ + 1]
  /\ active' = SpawnFailActive(active, nextId)
  /\ queuedAt' = [queuedAt EXCEPT ![nextId] = QueueDepth]
  /\ stack' = Append(stack, [id |-> nextId, ctx |-> "spawn",
                               err |-> TRUE])
  /\ waitState' = AfterCall
  /\ last' = [Op("QueueCloneRequestForkFails", nextId, "spawn", 0, -errno,
                 <<"failed to fork new process for git: ">> \o strerror(errno))
               EXCEPT !.response = <<OperationName(Exists(name))>>]
  /\ UNCHANGED <<deletes, xfer, watcher, cancelled, cancelledIds,
                 everCancel, cancelInWait, waitResult, crashed, debugopt,
                 lifeVars, checkout, operation, argv, bodyVars>>

\* The bodies that remain after this step: a body is a member of its
\* handler and is destroyed with it (f is body, or the history of it).
Reap(f) == [i \in Ids |-> IF handler'[i] = "alive" THEN f[i] ELSE <<>>]

\* Aur::CancelAll called by user code: by the caller, by a running
\* callback, or by a handler that the caller has registered with the same
\* event loop (sd_event_default) and that sd_event_run dispatches in Wait.
CancelAll ==
  /\ Live
  /\ UserControl \/ (waitState = "running" /\ active # {})
  /\ SetEng(CancelAllOn(Eng))
  /\ body' = Reap(body)
  /\ delivered' = Reap(delivered)
  /\ everCancel' = TRUE
  /\ cancelInWait' = (cancelInWait \/ waitState = "running")
  /\ waitState' = AfterCall
  /\ last' = [Op("CancelAll", NoId, "", 0, 0, <<>>) EXCEPT !.ids = active]
  /\ UNCHANGED <<nextId, kind, invoked, waitResult, stack, crashed,
                 queuedAt, debugopt, lifeVars, cloneVars>>

\* The value Wait returns once the loop has ended
WaitStatus(c) == IF c THEN -ECANCELED ELSE 0

\* Mutant: Wait keeps the flag a previous CancelAll has set
WaitEntryFlag_Kept(c) == c

\* Aur::Wait: cancelled_ = false
WaitEntryFlag(c) == FALSE

\* Aur::Wait is entered: cancelled_ = false, then the loop condition
WaitCall ==
  /\ Live
  /\ stack = <<>>
  /\ waitState # "running"
  /\ cancelled' = WaitEntryFlag(cancelled)
  /\ cancelInWait' = FALSE
  /\ queuedAt' = [i \in Ids |-> 0]
  /\ waitState' = "running"
  /\ last' = Op("Wait", NoId, "", 0, 0, <<>>)
  /\ UNCHANGED <<nextId, kind, active, handler, deletes, invoked, xfer,
                 watcher, cancelledIds, everCancel, waitResult, stack, crashed,
                 debugopt, lifeVars, cloneVars, bodyVars>>

\* Mutant: the loop of Wait ends although requests are in flight
WaitLoopExits_Early(S) == Cardinality(S) <= 1

\* Aur::Wait: the loop condition `!active_requests_.empty()` is false
WaitLoopExits(S) == S = {}

\* Aur::Wait: the loop ends and Wait returns
WaitReturn ==
  /\ Live
  /\ stack = <<>>
  /\ waitState = "running"
  /\ WaitLoopExits(active)
  /\ waitState' = "returned"
  /\ waitResult' = WaitStatus(cancelled)
  /\ last' = Op("WaitReturn", NoId, "", WaitStatus(cancelled), 0, <<>>)
  /\ UNCHANGED <<nextId, kind, active, handler, deletes, invoked, xfer,
                 watcher, cancelled, cancelledIds, everCancel, cancelInWait,
                 stack, crashed, queuedAt, debugopt, lifeVars, cloneVars,
                 bodyVars>>

\* sd_event_run is called by Wait's loop
InReactor ==
  /\ Live
  /\ stack = <<>>
  /\ waitState = "running"
  /\ ~WaitLoopExits(active)

\* Mutant: a failure of sd_event_run cancels everything in flight
ReactorFailEng_Cancels(e) == CancelAllOn(e)

\* What Wait does to the engine when sd_event_run fails
ReactorFailEng(e) == e

\* Aur::Wait: sd_event_run(event_, 1) < 0, Wait returns -EIO
ReactorFails ==
  /\ InReactor
  /\ SetEng(ReactorFailEng(Eng))
  /\ waitState' = "returned"
  /\ waitResult' = -EIO
  /\ last' = Op("ReactorFails", NoId, "", -EIO, 0, <<>>)
  /\ UNCHANGED <<nextId, kind, invoked, everCancel, cancelInWait, stack,
                 crashed, queuedAt, debugopt, lifeVars, cloneVars, bodyVars>>

\* Mutant: the finished transfer is released without its callback being run
FinishRequestDispatch_Silent(b, m, result, code, errbuf) ==
  /\ invoked' = invoked
  /\ body' = b
  /\ stack' = Append(stack, [id |-> m, ctx |-> "curl",
                              err |-> result # CURLE_OK])
  /\ last' = Op("OnCurl", m, "curl", result, code,
                TransferError(result, errbuf))

\* TypedResponseHandler::MakeResponse: ResponseT(std::move(body))
MakeResponse(b) == b

\* FinishRequest(CURL*, CURLcode, dispatch_callback = true) up to the call
\* of the callback: handler->RunCallback(response_code, error) -> Run,
\* which hands MakeResponse() to the callback and leaves body moved from;
\* b are the bodies as curl_multi_socket_action has left them
FinishRequestDispatch(b, m, result, code, errbuf) ==
  /\ invoked' = [invoked EXCEPT ![m] = IF @ < 2 THEN @ + 1 ELSE @]
  /\ body' = [b EXCEPT ![m] = <<>>]
  /\ stack' = Append(stack, [id |-> m, ctx |-> "curl",
                              err |-> result # CURLE_OK])
  /\ last' = [Op("OnCurl", m, "curl", result, code,
                 TransferError(result, errbuf))
               EXCEPT !.errbuf = errbuf, !.response = MakeResponse(b[m])]

\* Aur::CheckFinished up to the call of the callback: curl_multi_info_read
\* returns nullptr, or the CURLMSG_DONE message of one finished transfer
CheckFinished(x, b) ==
  LET pending == {i \in Ids : x[i] = "done"} IN
  IF pending = {}
    THEN /\ last' = Op("OnCurl", NoId, "", 0, 0, <<>>)
         /\ body' = b
         /\ UNCHANGED <<invoked, stack>>
    ELSE \E m \in pending, result \in Results, code \in ResponseCodes,
            errbuf \in ErrorBuffers :
           FinishRequestDispatch(b, m, result, code, errbuf)

\* Aur::OnCurlIO / Aur::OnCurlTimer dispatched by sd_event_run:
\* curl_multi_socket_action lets the transfers in S complete (or fails),
\* then CheckFinished drains one completed transfer.
OnCurl(ok, S) ==
  /\ InReactor
  /\ \E i \in Ids : xfer[i] \in {"running", "done"}
  /\ S \subseteq {i \in Ids : xfer[i] = "running"}
  /\ IF ~ok
       THEN \* curl_multi_socket_action != CURLM_OK: return -EINVAL
            /\ S = {}
            /\ last' = Op("OnCurl", NoId, "", -EINVAL, 0, <<>>)
            /\ UNCHANGED <<xfer, invoked, stack, body>>
       ELSE /\ xfer' = [i \in Ids |-> IF i \in S THEN "done" ELSE xfer[i]]
            /\ CheckFinished(xfer', body)
  /\ UNCHANGED <<nextId, kind, active, handler, deletes, watcher, cancelled,
                 cancelledIds, everCancel, cancelInWait, waitState,
                 waitResult, crashed, queuedAt, debugopt, lifeVars,
                 cloneVars, delivered>>

\* Aur::OnCurlIO dispatched by sd_event_run while transfer i receives data:
\* curl_multi_socket_action passes the next chunk of the body of i to
\* ResponseHandler::BodyCallback, then CheckFinished drains one completed
\* transfer if there is one.  At most MaxChunks chunks per transfer.
OnCurlData(i) ==
  LET chunk == Chunk(i, Len(delivered[i]) + 1) IN
  /\ InReactor
  /\ xfer[i] = "running"
  /\ Len(delivered[i]) < MaxChunks
  /\ delivered' = [delivered EXCEPT ![i] = Append(@, chunk)]
  /\ CheckFinished(xfer, [body EXCEPT ![i] = BodyAppend(@, chunk)])
  /\ UNCHANGED <<nextId, kind, active, handler, deletes, xfer, watcher,
                 cancelled, cancelledIds, everCancel, cancelInWait, waitState,
                 waitResult, crashed, queuedAt, debugopt, lifeVars, cloneVars>>

\* Mutant: the message does not tell the status
ExitError_NoStatus(status) ==
  IF status # 0 THEN <<"git exited with unexpected exit status ">> ELSE <<>>

\* The error string Aur::OnCloneExit computes
ExitError(status) ==
  IF status # 0
    THEN <<"git exited with unexpected exit status ">> \o to_string(status)
    ELSE <<>>

\* Aur::OnCloneExit dispatched by sd_event_run when child id has exited:
\* FinishRequest(source), then handler->RunCallback(si_status, error), whose
\* Run hands CloneResponse(std::move(operation_)) to the callback.  In
\* `last`, r is si->si_status and status is what the callback is given.
OnCloneExit(id, status) ==
  /\ InReactor
  /\ watcher[id]
  /\ SetEng(FinishRequestSource(Eng, id))
  /\ invoked' = [invoked EXCEPT ![id] = IF @ < 2 THEN @ + 1 ELSE @]
  /\ stack' = Append(stack, [id |-> id, ctx |-> "clone",
                               err |-> status # 0])
  /\ operation' = [operation EXCEPT ![id] = ""]
  /\ last' = [Op("OnCloneExit", id, "clone", status, status, ExitError(status))
               EXCEPT !.response = <<operation[id]>>]
  /\ UNCHANGED <<nextId, kind, everCancel, cancelInWait, waitState,
                 waitResult, crashed, queuedAt, debugopt, lifeVars, checkout,
                 reponame, argv, bodyVars>>

\* Mutant: CheckFinished ignores the result of FinishRequest
Escalate_Never(e, r) == e

\* Aur::CheckFinished after FinishRequest returned r
Escalate(e, r) == IF r < 0 THEN CancelAllOn(e) ELSE e

\* Mutant: a negative result of a clone callback cancels everything too
CloneReturn_Escalates(e, r) == Escalate(e, r)

\* Aur::OnCloneExit after RunCallback returned r: `return r`, to sd_event
CloneReturn(e, r) == e

\* The innermost callback returns r.  RunCallback deletes the handler; then
\* the code that invoked it continues:
\*   "curl":  FinishRequest releases the transfer, CheckFinished calls
\*            CancelAll if r < 0, OnCurlIO returns r to sd_event
\*   "clone": OnCloneExit returns r to sd_event
\*   "spawn": QueueCloneRequest returns to its caller
\* A second delete of the same handler is undefined behaviour: the process
\* may be terminated there, or run on.
RunCallbackReturns(r, crash) ==
  LET top == stack[Len(stack)]
      id == top.id
      e1 == DeleteHandler(Eng, id)
      e2 == CASE top.ctx = "curl" -> Escalate(ReleaseTransfer(e1, id), r)
              [] top.ctx = "clone" -> CloneReturn(e1, r)
              [] OTHER -> e1
      esc == top.ctx = "curl" /\ r < 0
  IN
  /\ Live
  /\ stack # <<>>
  /\ crash \in (IF e1.ub THEN BOOLEAN ELSE {FALSE})
  /\ crashed' = crash
  /\ IF crash
       THEN /\ SetEng(e1)
            /\ UNCHANGED <<stack, everCancel, cancelInWait>>
       ELSE /\ SetEng(e2)
            /\ stack' = SubSeq(stack, 1, Len(stack) - 1)
            /\ everCancel' = (everCancel \/ esc)
            /\ cancelInWait' = (cancelInWait \/ (esc /\ waitState = "running"))
  /\ body' = Reap(body)
  /\ delivered' = Reap(delivered)
  /\ last' = Op(IF crash THEN "Abort" ELSE "CallbackReturns", id, top.ctx,
                r, 0, IF top.err THEN <<"error">> ELSE <<>>)
  /\ UNCHANGED <<nextId, kind, invoked, waitState, waitResult, queuedAt,
                 debugopt, lifeVars, cloneVars>>

Next ==
  \/ \E k \in 1..MaxUrls : QueueHttpRequest(k)
  \/ QueueCloneRequest(MainRepo)
  \/ \E e \in ForkErrnos : QueueCloneRequestForkFails(MainRepo, e)
  \/ CancelAll
  \/ WaitCall
  \/ WaitReturn
  \/ ReactorFails
  \/ \E ok \in BOOLEAN, S \in SUBSET Ids : OnCurl(ok, S)
  \/ \E id \in Ids, status \in ExitStatuses : OnCloneExit(id, status)
  \/ \E r \in CallbackResults, crash \in BOOLEAN : RunCallbackReturns(r, crash)

Spec == Init /\ [][Next]_vars

\* The reactor delivers events while Wait runs, transfers and children
\* finish, callbacks return, and Wait's loop notices an empty set.
ReactorDelivers ==
  \/ OnCurl(TRUE, {i \in Ids : xfer[i] = "running"})
  \/ \E id \in Ids, status \in ExitStatuses : OnCloneExit(id, status)

FairSpec ==
  /\ Spec
  /\ WF_vars(ReactorDelivers)
  /\ WF_vars(\E r \in CallbackResults : RunCallbackReturns(r, FALSE))
  /\ WF_vars(WaitReturn)

\* ------------------------------------- construction and destruction
\* The process before Aur::Aur: AURACLE_DEBUG and the signal mask are
\* whatever the environment made them.
LifeInit ==
  /\ EngineInit
  /\ phase = "unborn"
  /\ env \in EnvValues
  /\ sigmask \in PriorMasks
  /\ debug_level_ = "NONE"
  /\ debug_stream_ = [opened |-> FALSE, path |-> <<>>]
  /\ saved_ss_ = {}
  /\ maskBefore = {}
  /\ checkout = {}
  /\ last = Op("main", NoId, "", 0, 0, <<>>)

\* Aur::Aur: SIGCHLD is blocked and the mask before is saved; the debug
\* level is chosen from AURACLE_DEBUG and the trace file is opened
Construct ==
  /\ phase = "unborn"
  /\ phase' = "alive"
  /\ maskBefore' = sigmask
  /\ saved_ss_' = sigmask
  /\ sigmask' = SigBlock(sigmask)
  /\ debug_level_' = DebugOf(env).level
  /\ debug_stream_' = DebugOf(env).stream
  /\ last' = Op("Aur", NoId, "", 0, 0, <<>>)
  /\ UNCHANGED <<nextId, kind, active, handler, deletes, invoked, xfer,
                 watcher, cancelled, cancelledIds, everCancel, cancelInWait,
                 waitState, waitResult, stack, crashed, queuedAt, debugopt,
                 env, cloneVars, bodyVars>>

\* Aur::~Aur, called by the caller between two operations: the saved mask
\* is restored and the trace file closed
Destroy ==
  /\ Live
  /\ stack = <<>>
  /\ waitState # "running"
  /\ phase' = "destroyed"
  /\ sigmask' = SigRestore(sigmask, saved_ss_)
  /\ debug_stream_' = [debug_stream_ EXCEPT !.opened = FALSE]
  /\ last' = Op("~Aur", NoId, "", 0, 0, <<>>)
  /\ UNCHANGED <<nextId, kind, active, handler, deletes, invoked, xfer,
                 watcher, cancelled, cancelledIds, everCancel, cancelInWait,
                 waitState, waitResult, stack, crashed, queuedAt, debugopt,
                 env, debug_level_, saved_ss_, maskBefore, cloneVars,
                 bodyVars>>

LifeNext ==
  \/ Construct
  \/ Destroy
  \/ QueueHttpRequest(1)
  \/ CancelAll
  \/ WaitCall
  \/ WaitReturn
  \/ \E S \in SUBSET Ids : OnCurl(TRUE, S)
  \/ RunCallbackReturns(0, FALSE)

LifeSpec == LifeInit /\ [][LifeNext]_vars

\* ------------------------------------------- the working directory
\* Some of the repositories are checked out already.
CloneInit == \E c \in SUBSET RepoNames : InitWith(<<>>, {}, c)

\* QueueCloneRequest, in the child: execvp of `git clone`, which creates
\* the checkout while the parent goes on
GitClones(id) ==
  /\ kind[id] = "clone"
  /\ invoked[id] = 0
  /\ argv[id] = ChildArgv(FALSE, reponame[id])
  /\ reponame[id] \notin checkout
  /\ checkout' = checkout \cup {reponame[id]}
  /\ last' = Op("GitClones", id, "", 0, 0, <<>>)
  /\ UNCHANGED <<nextId, kind, active, handler, deletes, invoked, xfer,
                 watcher, cancelled, cancelledIds, everCancel, cancelInWait,
                 waitState, waitResult, stack, crashed, queuedAt, debugopt,
                 lifeVars, reponame, operation, argv, bodyVars>>

CloneNext ==
  \/ \E name \in RepoNames : QueueCloneRequest(name)
  \/ \E name \in RepoNames : QueueCloneRequestForkFails(name, EAGAIN)
  \/ \E id \in Ids : GitClones(id)
  \/ CancelAll
  \/ WaitCall
  \/ WaitReturn
  \/ \E id \in Ids : OnCloneExit(id, 0)
  \/ RunCallbackReturns(0, FALSE)

CloneSpec == CloneInit /\ [][CloneNext]_vars

\* ------------------------------------------------ the response bodies
BodyNext ==
  \/ \E k \in 1..MaxUrls : QueueHttpRequest(k)
  \/ CancelAll
  \/ WaitCall
  \/ WaitReturn
  \/ \E S \in SUBSET Ids : OnCurl(TRUE, S)
  \/ \E i \in Ids : OnCurlData(i)
  \/ \E r \in {-1, 0} : RunCallbackReturns(r, FALSE)

BodySpec == Init /\ [][BodyNext]_vars

\* the handlers allocated so far
Created == 1..(nextId - 1)

C2_EveryRequestInvokedOnceOrCancelled ==
  /\ [](\A i \in Created :
         invoked[i] <= 1 /\ (i \in cancelledIds => invoked[i] = 0))
  /\ \A i \in Ids :
       [](i \in active /\ waitState = "running" =>
            <>(invoked[i] >= 1 \/ i \in cancelledIds
                 \/ waitState = "returned"))

\* ------------------------------------------------------------------ C3
\* C3 (as claimed): when a Wait during which CancelAll was executed has
\* returned, it returned -ECANCELED, the active set is empty, no request
\* that was cancelled has had its callback invoked, and every other request
\* has had its callback invoked once.
C3_CancelDuringWait ==
  (waitState = "returned" /\ cancelInWait) =>
    /\ waitResult = -ECANCELED
    /\ active = {}
    /\ \A i \in cancelledIds : invoked[i] = 0
    /\ \A i \in Created \ cancelledIds : invoked[i] = 1

\* ------------------------------------------------------------------ C4
\* C4 (as claimed): when CancelAll has returned the active set is empty,
\* and the handler of every request it cancelled has been released,
\* whether the request was a transfer or a child-exit watcher.
C4_CancelAllReleasesHandlers ==
  /\ last.op = "CancelAll" => active = {}
  /\ \A i \in cancelledIds : handler[i] = "freed"

\* ------------------------------------------------------------------ C5
\* C5 (as claimed): no handler is deleted or invoked more than once; a
\* cancelled request's handler has been deleted once and was never
\* invoked; a handler whose callback has returned has been deleted once.
C5_HandlerDestroyedExactlyOnce ==
  \A i \in Created :
    /\ deletes[i] <= 1
    /\ invoked[i] <= 1
    /\ i \in cancelledIds => (deletes[i] = 1 /\ invoked[i] = 0)
    /\ (invoked[i] = 1 /\ \A k \in 1..Len(stack) : stack[k].id # i)
         => deletes[i] = 1

\* ------------------------------------------------------------------ C6
\* C6: the active set is empty as long as no request has been queued on
\* the engine, and it is empty in every state in which a call of Wait has
\* just returned 0.
C6_ActiveEmptyInitiallyAndAfterSuccess ==
  /\ nextId = 1 => active = {}
  /\ (waitState = "returned" /\ waitResult = 0) => active = {}

C6_Witness ==
  /\ waitState = "returned"
  /\ waitResult = 0
  /\ active = {}
  /\ \E i \in Created : kind[i] = "http" /\ invoked[i] = 1
  /\ \E i \in Created : kind[i] = "clone" /\ invoked[i] = 1

\* ------------------------------------------------------------------ C7
\* C7 (as claimed): when sd_event_run has failed in Wait, the active set
\* is empty and every request was either finalized or cancelled.
C7_ReactorErrorCancelsAll ==
  last.op = "ReactorFails" =>
    /\ active = {}
    /\ \A i \in Created : i \in cancelledIds \/ invoked[i] >= 1

\* C7 (amended): when sd_event_run has failed in Wait, Wait has returned
\* -EIO and nothing was cancelled: the requests in flight are still in the
\* active set, their handlers alive and not invoked, and the cancellation
\* flag is set only if CancelAll ran earlier in this Wait.
C7_ReactorErrorLeavesRequestsInFlight ==
  last.op = "ReactorFails" =>
    /\ waitState = "returned"
    /\ waitResult = -EIO
    /\ active # {}
    /\ \A i \in active :
         handler[i] = "alive" /\ invoked[i] = 0 /\ i \notin cancelledIds
    /\ cancelled = cancelInWait

C7_Witness ==
  /\ last.op = "ReactorFails"
  /\ Cardinality(active) >= 2
  /\ \E i \in active : kind[i] = "http"
  /\ \E i \in active : kind[i] = "clone"
  /\ ~cancelled

\* ------------------------------------------------------------------ C8
\* C8 (as claimed): when the callback of a drained transfer has returned a
\* non-zero value, the active set is empty and the cancellation flag set.
C8_NonZeroResultCancelsAll ==
  (last.op = "CallbackReturns" /\ last.ctx = "curl" /\ last.r # 0) =>
    (active = {} /\ cancelled)

\* C8 (amended): when the callback of a drained transfer has returned a
\* negative value, CancelAll has run: the active set is empty, the
\* cancellation flag is set, and every other request was cancelled unless
\* its callback had been invoked before.
C8_NegativeResultCancelsAll ==
  (last.op = "CallbackReturns" /\ last.ctx = "curl" /\ last.r < 0) =>
    /\ active = {}
    /\ cancelled
    /\ \A i \in Created \ {last.id} : i \in cancelledIds \/ invoked[i] >= 1

C8_Witness ==
  /\ last.op = "CallbackReturns" /\ last.ctx = "curl" /\ last.r < 0
  /\ active = {}
  /\ cancelled
  /\ \E i, j \in cancelledIds :
       /\ kind[i] = "http" /\ kind[j] = "clone"
       /\ invoked[i] = 0 /\ invoked[j] = 0
  /\ deletes[last.id] = 1

\* ------------------------------------------------------------------ C9
\* C9: the step of QueueCloneRequest in which fork() fails invokes the new
\* request's callback (once, with a negative status and a non-empty error
\* string), registers no watcher and leaves the active set as it was; the
\* step in which that callback returns, which is where QueueCloneRequest
\* returns, finds the callback invoked exactly once, and it too registers
\* no watcher and leaves the active set as it was.
C9_SpawnFailureIsReportedSynchronously ==
  [][ /\ last'.op = "QueueCloneRequestForkFails" =>
           /\ invoked[last'.id] = 0 /\ invoked'[last'.id] = 1
           /\ stack' = Append(stack, stack'[Len(stack')])
           /\ stack'[Len(stack')].id = last'.id
           /\ last'.status < 0
           /\ last'.error # <<>>
           /\ ~watcher'[last'.id]
           /\ active' = active
      /\ (last'.op = "CallbackReturns" /\ last'.ctx = "spawn") =>
           /\ invoked'[last'.id] = 1
           /\ deletes'[last'.id] = 1
           /\ ~watcher'[last'.id]
           /\ active' = active
           /\ last'.id \notin active'
    ]_vars

C9_Witness ==
  /\ last.op = "CallbackReturns" /\ last.ctx = "spawn"
  /\ kind[last.id] = "spawnfail"
  /\ invoked[last.id] = 1
  /\ active # {}
  /\ last.id \notin active

\* ----------------------------------------------------------------- C10
\* the requests other than id are untouched by a step
OthersUntouched(id) ==
  /\ \A j \in Ids \ {id} :
       /\ (j \in active) <=> (j \in active')
       /\ handler'[j] = handler[j]
       /\ invoked'[j] = invoked[j]
       /\ watcher'[j] = watcher[j]
       /\ deletes'[j] = deletes[j]
  /\ cancelled' = cancelled
  /\ cancelledIds' = cancelledIds

\* C10: the steps that finalize a request which ended with a transfer
\* error, a non-zero exit status or a spawn failure - the step that hands
\* the error to the request's own callback and the step in which that
\* callback returns - change nothing about any other request: it stays in
\* the active set with its handler alive and its callback not invoked.
\* (A transfer callback that returns a negative value asks for CancelAll,
\* which is C8 and not the error's own effect.)
C10_ErrorsAreLocal ==
  [][ /\ (/\ last'.op \in {"OnCurl", "OnCloneExit",
                             "QueueCloneRequestForkFails"}
          /\ last'.id # NoId
          /\ last'.error # <<>>) => OthersUntouched(last'.id)
      /\ (/\ last'.op = "CallbackReturns"
          /\ last'.error # <<>>
          /\ (last'.ctx = "curl" => last'.r >= 0)) => OthersUntouched(last'.id)
    ]_vars

C10_Witness ==
  /\ last.op = "CallbackReturns" /\ last.error # <<>>
  /\ last.ctx = "curl"
  /\ \E i, j \in active :
       /\ kind[i] = "http" /\ kind[j] = "clone"
       /\ handler[i] = "alive" /\ handler[j] = "alive"
       /\ invoked[i] = 0 /\ invoked[j] = 0
  /\ ~cancelled

\* ----------------------------------------------------------------- C11
\* C11: when a completed transfer is handed to its callback, the error
\* string is empty if the transfer ended with CURLE_OK; it is the content
\* of the handler's error buffer if the transfer failed and the buffer
\* holds a message; and it is curl's text for the result code, which is
\* not empty, if the transfer failed and the buffer is empty.
C11_TransferErrorString ==
  (last.op = "OnCurl" /\ last.id # NoId) =>
    /\ last.r = CURLE_OK => last.error = <<>>
    /\ (last.r # CURLE_OK /\ last.errbuf # <<>>) => last.error = last.errbuf
    /\ (last.r # CURLE_OK /\ last.errbuf = <<>>) =>
         /\ last.error = curl_easy_strerror(last.r)
         /\ last.error # <<>>

C11_Witness ==
  /\ last.op = "OnCurl"
  /\ last.id # NoId
  /\ last.r = CURLE_OPERATION_TIMEDOUT
  /\ last.errbuf = <<>>
  /\ last.error = <<"Timeout was reached">>
  /\ invoked[last.id] = 1

\* ----------------------------------------------------------------- C12
\* the characters of the decimal digits, and the number a string of them
\* denotes
DecimalDigits == <<"0", "1", "2", "3", "4", "5", "6", "7", "8", "9">>

IsDecimal(str) ==
  /\ str # <<>>
  /\ \A k \in 1..Len(str) : \E d \in 1..10 : DecimalDigits[d] = str[k]

RECURSIVE DecimalValue(_)
DecimalValue(str) ==
  IF str = <<>> THEN 0
  ELSE LET c == str[Len(str)]
           d == CHOOSE v \in 0..9 : DecimalDigits[v + 1] = c
       IN  10 * DecimalValue(SubSeq(str, 1, Len(str) - 1)) + d

\* str contains the decimal representation of n
ContainsDecimal(str, n) ==
  \E a, b \in 1..Len(str) :
    /\ a <= b
    /\ IsDecimal(SubSeq(str, a, b))
    /\ str[a] # "0"
    /\ DecimalValue(SubSeq(str, a, b)) = n

\* C12: when the exit of a git child is handed to its callback, the status
\* given to the callback is the child's exit status, the error string is
\* empty if and only if that status is 0, and for a status N other than 0
\* the error string contains N written in decimal.
C12_ExitStatusAndError ==
  last.op = "OnCloneExit" =>
    /\ last.status = last.r
    /\ (last.error = <<>>) <=> (last.status = 0)
    /\ last.status # 0 => ContainsDecimal(last.error, last.status)

C12_Witness ==
  /\ last.op = "OnCloneExit"
  /\ last.status = 127
  /\ last.error = <<"git exited with unexpected exit status ", "1", "2", "7">>
  /\ invoked[last.id] = 1

\* ----------------------------------------------------------------- C13
\* C13: the step of QueueCloneRequest that spawns the child decides by the
\* presence of ".git" in the request's directory before the step: with it
\* the handler's operation is "update" and the child's arguments to git
\* are -C <dir> pull --quiet --rebase --autostash --ff-only, without it
\* the operation is "clone" and the arguments are clone --quiet <url>;
\* and when the child's exit is handed to the callback, the response names
\* the operation whose argument vector the child was given, whatever the
\* directory contains by then.
C13_OperationFromCheckoutMarker ==
  [][ /\ last'.op = "QueueCloneRequest" =>
           LET i == last'.id
               dir == reponame'[i]
           IN  /\ argv'[i][1] = "git"
               /\ dir \in checkout =>
                    /\ operation'[i] = "update"
                    /\ Tail(argv'[i]) = <<"-C", dir, "pull", "--quiet",
                                          "--rebase", "--autostash",
                                          "--ff-only">>
               /\ dir \notin checkout =>
                    /\ operation'[i] = "clone"
                    /\ Tail(argv'[i]) = <<"clone", "--quiet", CloneUrl(dir)>>
      /\ last'.op = "OnCloneExit" =>
           last'.response =
             <<IF argv[last'.id][2] = "clone" THEN "clone" ELSE "update">>
    ]_vars

C13_Witness ==
  /\ last.op = "OnCloneExit"
  /\ last.response = <<"clone">>
  /\ reponame[last.id] \in checkout
  /\ \E j \in Created :
       /\ kind[j] = "clone"
       /\ reponame[j] = reponame[last.id]
       /\ argv[j][2] = "-C"

\* ----------------------------------------------------------------- C14
\* C14: when a completed transfer is handed to its callback, the response
\* body is the sequence of the chunks curl passed to the write callback of
\* that transfer, in the order of the calls: all of them, each once, and
\* no chunk of another transfer.
C14_BodyIsConcatenationOfChunks ==
  (last.op = "OnCurl" /\ last.id # NoId) =>
    /\ last.response = delivered[last.id]
    /\ \A k \in 1..Len(last.response) :
         last.response[k] = Chunk(last.id, k)

C14_Witness ==
  /\ last.op = "OnCurl"
  /\ last.id # NoId
  /\ Len(last.response) = MaxChunks
  /\ \E j \in Ids \ {last.id} :
       /\ xfer[j] \in {"running", "done"}
       /\ delivered[j] # <<>>

\* ----------------------------------------------------------------- C15
\* the value starts with "requests:"
StartsWithRequests(e) ==
  /\ Len(e) >= Len(Str_requests)
  /\ \A k \in 1..Len(Str_requests) : e[k] = Str_requests[k]

\* C15: from construction on, in every state - whatever was queued, waited
\* for or cancelled - the debug level is the one the value of
\* AURACLE_DEBUG selects: REQUESTS, with the trace file named by the rest
\* of the value, if the value starts with "requests:"; VERBOSE_STDERR for
\* any other value that is not empty; NONE if it is unset or empty; and
\* every transfer was queued with the trace options of that level.
C15_DebugModeFromEnvironment ==
  phase # "unborn" =>
    /\ StartsWithRequests(env) =>
         /\ debug_level_ = "REQUESTS"
         /\ debug_stream_.path = SubSeq(env, Len(Str_requests) + 1, Len(env))
         /\ \A i \in Created : debugopt[i] = <<"DEBUGFUNCTION", "VERBOSE">>
    /\ (~StartsWithRequests(env) /\ env # <<>>) =>
         /\ debug_level_ = "VERBOSE_STDERR"
         /\ ~debug_stream_.opened
         /\ \A i \in Created : debugopt[i] = <<"VERBOSE">>
    /\ env = <<>> =>
         /\ debug_level_ = "NONE"
         /\ ~debug_stream_.opened
         /\ \A i \in Created : debugopt[i] = <<>>

C15_Witness ==
  /\ phase = "alive"
  /\ env = Str_requests \o <<"/", "t">>
  /\ debug_level_ = "REQUESTS"
  /\ debug_stream_ = [opened |-> TRUE, path |-> <<"/", "t">>]
  /\ last.op = "WaitReturn"
  /\ everCancel
  /\ nextId = MaxReq + 1
  /\ \E i \in Created : invoked[i] = 1

\* ----------------------------------------------------------------- C16
\* C16 (as claimed): a transfer whose callback is executing is a member of
\* the active set and its easy handle has not been released; once its
\* callback has returned it is no member and the handle is released.
C16_HandleActiveDuringCallback ==
  /\ \A k \in 1..Len(stack) :
       stack[k].ctx = "curl" =>
         (stack[k].id \in active /\ xfer[stack[k].id] # "removed")
  /\ (last.op = "CallbackReturns" /\ last.ctx = "curl") =>
       (last.id \notin active /\ xfer[last.id] = "removed")

\* ----------------------------------------------------------------- C17
\* C17: in every state in which the engine exists SIGCHLD is blocked (the
\* mask is the one from before construction plus SIGCHLD), and once the
\* engine is destroyed the mask is the one from before construction.
C17_ChildSignalBlockedForLifetime ==
  /\ phase = "alive" =>
       ("SIGCHLD" \in sigmask /\ sigmask = maskBefore \cup {"SIGCHLD"})
  /\ phase = "destroyed" => sigmask = maskBefore

C17_Witness ==
  /\ phase = "destroyed"
  /\ maskBefore = {"SIGCHLD", "SIGINT"}
  /\ sigmask = maskBefore
  /\ nextId > 1
  /\ waitState = "returned"

\* ----------------------------------------------------------------- C18
\* C18: every entry of Wait leaves the cancellation flag cleared.  When the
\* caller calls Wait right after a CancelAll it made outside Wait, the
\* active set is empty at entry and no request that CancelAll cancelled
\* has had its callback invoked; and a Wait that finds the active set
\* empty at entry does nothing but return 0: no reactor step, no callback.
C18_WaitClearsCancellationFlag ==
  [][ /\ last'.op = "Wait" => ~cancelled'
      /\ (last.op = "CancelAll" /\ last'.op = "Wait") =>
           /\ active' = {}
           /\ \A i \in last.ids : invoked'[i] = 0
      /\ (last.op = "Wait" /\ active = {}) =>
           /\ last'.op = "WaitReturn"
           /\ waitResult' = 0
           /\ invoked' = invoked
    ]_vars

C18_Witness ==
  /\ last.op = "WaitReturn"
  /\ waitResult = 0
  /\ ~cancelled
  /\ everCancel
  /\ cancelledIds = Created
  /\ nextId = MaxReq + 1
  /\ \A i \in Created : invoked[i] = 0

\* ----------------------------------------------------------------- C19
\* C19: a request queued by a callback that runs during Wait, at any depth
\* of callbacks, is a member of the active set until it is finalized or
\* cancelled; and when that Wait has returned 0 every such request has been
\* finalized: its callback was invoked once and has returned, and it is no
\* member of the active set.
C19_QueuedInCallbackJoinsWait ==
  /\ \A i \in Created :
       (/\ queuedAt[i] > 0
        /\ kind[i] # "spawnfail"
        /\ invoked[i] = 0
        /\ i \notin cancelledIds) => i \in active
  /\ (waitState = "returned" /\ waitResult = 0) =>
       \A i \in Created :
         queuedAt[i] > 0 =>
           (invoked[i] = 1 /\ i \notin active /\ handler[i] = "freed")

C19_Witness ==
  /\ waitState = "returned"
  /\ waitResult = 0
  /\ \E i, j \in Created :
       /\ queuedAt[i] = 1 /\ queuedAt[j] = 2
       /\ kind[j] = "http"
       /\ invoked[i] = 1 /\ invoked[j] = 1

\* ----------------------------------------------------------------- C20
\* C20: the step in which the callback of a child-exit request returns a
\* negative value cancels nothing: the active set, the cancellation flag
\* and the set of cancelled requests are as before, and every request in
\* flight keeps its handler, its transfer or its watcher; whereas the step
\* in which a transfer's callback returns a negative value empties the
\* active set and sets the flag.
C20_CloneCallbackErrorDoesNotCancel ==
  [][ /\ (last'.op = "CallbackReturns" /\ last'.ctx = "clone" /\ last'.r < 0) =>
           /\ active' = active
           /\ cancelled' = cancelled
           /\ cancelledIds' = cancelledIds
           /\ \A j \in active :
                /\ handler'[j] = handler[j]
                /\ xfer'[j] = xfer[j]
                /\ watcher'[j] = watcher[j]
      /\ (last'.op = "CallbackReturns" /\ last'.ctx = "curl" /\ last'.r < 0) =>
           (active' = {} /\ cancelled')
    ]_vars

C20_Witness ==
  /\ last.op = "CallbackReturns" /\ last.ctx = "clone" /\ last.r < 0
  /\ waitState = "running"
  /\ ~cancelled
  /\ cancelledIds = {}
  /\ \E i, j \in active :
       /\ kind[i] = "http" /\ kind[j] = "clone"
       /\ handler[i] = "alive" /\ handler[j] = "alive"
====
